---- MODULE Spec2Model ----
(***************************************************************************)
(* Schedule compilation (parse_schedules) and evaluation (floor_search,   *)
(* floor_multi_search) of luz_optimon, with the two HTTP handlers that    *)
(* call the evaluator.                                                     *)
(*                                                                         *)
(* Time.  chrono's DateTime<Utc> and TimeDelta are 64-bit second counts    *)
(* with a sub-second part.  Here both are counts of ticks, TicksPerSec     *)
(* ticks to the second, held in two limbs (hi * LimbBase + lo) so that     *)
(* instants further than 2^31 seconds from an anchor can be written and    *)
(* the cast `approx_n as i32` keeps its width.                             *)
(*                                                                         *)
(* Values.  serde_json Values are natural numbers: the default of the      *)
(* variable type is DefaultValue, the i-th value of a periodic entry is i. *)
(***************************************************************************)
EXTENDS Integers, Sequences, FiniteSets

VARIABLES file, build, pick, schedules, reply

vars == <<file, build, pick, schedules, reply>>

----------------------------------------------------------------------------
(* Bounds of the model and constants of the program *)

TicksPerSec == 2
SecsPerHour == 3600
T24 == 24
I32Bits == 32
MaxTick == 3
MaxTime == 1
MaxLen == 2
MaxNear == 3
MaxFar == 2
MaxBatch == 2
MaxPick == 1

TicksPerHour == SecsPerHour * TicksPerSec
DayTicks == 24 * TicksPerHour
LimbBase == 2^8
HiSpan == 2^(I32Bits - 8)

----------------------------------------------------------------------------
(* Two-limb integers: [hi, lo] stands for hi * LimbBase + lo, 0 <= lo < LimbBase *)

W(n) == [hi |-> n \div LimbBase, lo |-> n % LimbBase]

ToInt(a) == a.hi * LimbBase + a.lo

WAdd(a, b) ==
    LET s == a.lo + b.lo
    IN  [hi |-> a.hi + b.hi + (s \div LimbBase), lo |-> s % LimbBase]

WNeg(a) ==
    IF a.lo = 0 THEN [hi |-> 0 - a.hi, lo |-> 0]
    ELSE [hi |-> 0 - a.hi - 1, lo |-> LimbBase - a.lo]

WSub(a, b) == WAdd(a, WNeg(b))

WLess(a, b) == a.hi < b.hi \/ (a.hi = b.hi /\ a.lo < b.lo)

WLeq(a, b) == a = b \/ WLess(a, b)

WMul(a, b) ==
    LET p == a.lo * b.lo
    IN  [hi |-> a.hi * b.hi * LimbBase + a.hi * b.lo + a.lo * b.hi + (p \div LimbBase),
         lo |-> p % LimbBase]

\* floor(a / d) and a - d * floor(a / d), for an Int d > 0
WDivFloor(a, d) ==
    LET t == (a.hi % d) * LimbBase + a.lo
    IN  [hi |-> a.hi \div d, lo |-> t \div d]

WMod(a, d) == ((a.hi % d) * LimbBase + a.lo) % d

\* Rust's integer `/`: the quotient truncated toward zero
WDivTrunc(a, d) ==
    IF a.hi >= 0 THEN WDivFloor(a, d) ELSE WNeg(WDivFloor(WNeg(a), d))

\* `x as i32`: the low 32 bits, read as a signed number
AsI32(a) == [hi |-> ((a.hi + HiSpan \div 2) % HiSpan) - HiSpan \div 2, lo |-> a.lo]

\* TimeDelta::num_seconds: whole seconds, truncated toward zero
num_seconds(td) == WDivTrunc(td, TicksPerSec)

----------------------------------------------------------------------------
(* Results of a call: a value, or a panic that unwinds the caller *)

DefaultValue == 0

Ret(v) == [panic |-> FALSE, value |-> v]

Panicked == [panic |-> TRUE, value |-> 0]

PanickedW == [panic |-> TRUE, value |-> W(0)]

PanickedSeq == [panic |-> TRUE, value |-> << >>]

None == << >>

Some(x) == <<x>>

----------------------------------------------------------------------------
(* Evaluation: schedules.rs, impl VarSchedule *)

Builds == {"debug", "release"}

IsSorted(s) == \A i, j \in DOMAIN s : i < j => WLeq(s[i], s[j])

StrictlyAscending(s) == \A i, j \in DOMAIN s : i < j => WLess(s[i], s[j])

\* What slice::binary_search may return: Ok(i) only where s[i] = x; on a
\* sorted slice any match if there is one and else Err(insertion point);
\* on an unsorted slice the result is unspecified.
SearchOutcomes(s, x) ==
    LET hits == {[found |-> TRUE, index |-> j - 1] : j \in {i \in DOMAIN s : s[i] = x}}
        below == Cardinality({i \in DOMAIN s : WLess(s[i], x)})
    IN  IF IsSorted(s)
        THEN IF hits # {} THEN hits ELSE {[found |-> FALSE, index |-> below]}
        ELSE hits \cup {[found |-> FALSE, index |-> i] : i \in 0..Len(s)}

OutcomeRank(s, o) == IF o.found THEN o.index ELSE Len(s) + 1 + o.index

\* The library is one fixed function: `pick` fixes which permitted outcome it returns
binary_search(s, x) ==
    LET C == SearchOutcomes(s, x)
        k == pick % Cardinality(C)
    IN  CHOOSE o \in C : Cardinality({p \in C : OutcomeRank(s, p) < OutcomeRank(s, o)}) = k

\* values[i], i counted from 0; out of bounds panics
Index(v, i) == IF (i + 1) \in DOMAIN v THEN Ret(v[i + 1]) ELSE Panicked

most_recent_start(s, time) ==
    LET elapsed == WSub(time, s.start_point)
        psecs == num_seconds(s.period)
    IN  IF psecs = W(0) THEN PanickedW
        ELSE LET approx_n == WDivTrunc(num_seconds(elapsed), ToInt(psecs))
                 start == WAdd(s.start_point, WMul(s.period, AsI32(approx_n)))
             IN  IF build = "debug" /\ ~WLeq(start, time) THEN PanickedW ELSE Ret(start)

fetch_schedule_point(s, time) ==
    LET m == most_recent_start(s, time)
    IN  IF m.panic THEN PanickedW
        ELSE LET schedule_time == WSub(time, m.value)
             IN  IF build = "debug" /\ ~WLess(schedule_time, s.period)
                 THEN PanickedW ELSE Ret(schedule_time)

\* The branch of floor_search taken after the start point (schedules.rs 168-178)
floor_lookup(s, time) ==
    LET p == fetch_schedule_point(s, time)
    IN  IF p.panic THEN Panicked
        ELSE LET r == binary_search(s.times, p.value)
             IN  IF r.found THEN Index(s.values, r.index)
                 ELSE IF r.index = 0
                      THEN IF Len(s.times) = 0 THEN Panicked
                           ELSE IF WLess(p.value, s.times[1])
                                THEN Ret(s.default_val)
                                ELSE Panicked
                      ELSE Index(s.values, r.index - 1)

\* floor_search without its test against the start point
floor_search_unguarded(s, time) == floor_lookup(s, time)

PeriodicSchedule_floor_search(s, time) ==
    IF WLess(s.start_point, time) THEN floor_lookup(s, time) ELSE Ret(s.default_val)

ConstantSchedule_floor_search(s, time) == Ret(s.value)

floor_search(s, time) ==
    IF s.kind = "Constant" THEN ConstantSchedule_floor_search(s, time)
    ELSE PeriodicSchedule_floor_search(s, time)

\* As the default method, with the results in the opposite order
floor_multi_search_reversed(s, times) ==
    IF \E i \in DOMAIN times : floor_search(s, times[i]).panic THEN PanickedSeq
    ELSE Ret([i \in DOMAIN times |-> floor_search(s, times[Len(times) + 1 - i]).value])

\* The trait's default method: map floor_search over the slice
VarSchedule_floor_multi_search(s, times) ==
    IF \E i \in DOMAIN times : floor_search(s, times[i]).panic THEN PanickedSeq
    ELSE Ret([i \in DOMAIN times |-> floor_search(s, times[i]).value])

ConstantSchedule_floor_multi_search(s, times) ==
    Ret([i \in 1..Len(times) |-> s.value])

floor_multi_search(s, times) ==
    IF s.kind = "Constant" THEN ConstantSchedule_floor_multi_search(s, times)
    ELSE VarSchedule_floor_multi_search(s, times)

var_type(s) == s.var_type

----------------------------------------------------------------------------
(* Compilation: schedules.rs, parse_schedules and what it calls *)

\* An f64 count of hours: not a number, or h whole hours and t further ticks
NaN == [nan |-> TRUE, h |-> 0, t |-> 0]

Hrs(h, t) == [nan |-> FALSE, h |-> h, t |-> t]

Ok(x) == [ok |-> TRUE, v |-> x, err |-> << >>]

Err(v0, e) == [ok |-> FALSE, v |-> v0, err |-> e]

\* Duration::try_from_secs_f64 refuses a negative, infinite or NaN count of seconds
hours_to_td(hours) ==
    IF hours.nan \/ hours.h < 0 THEN Err(W(0), <<"invalid duration">>)
    ELSE Ok(W(hours.h * SecsPerHour * TicksPerSec + hours.t))

RECURSIVE convert_times(_)
convert_times(times) ==
    IF times = << >> THEN Ok(<< >>)
    ELSE LET d == hours_to_td(Head(times))
             rest == convert_times(Tail(times))
         IN  IF ~d.ok THEN Err(<< >>, d.err)
             ELSE IF ~rest.ok THEN rest
             ELSE Ok(<<d.v>> \o rest.v)

\* The instant itself, its time of day kept
midnight_kept(time) == time

\* The start of the UTC calendar day of `time`
midnight(time) == WSub(time, W(WMod(time, DayTicks)))

\* A timestamp string stands for what it parses to
parse_datetime_iso8601(input) ==
    IF input.bad THEN Err(W(0), <<"Error parsing time">>) ELSE Ok(input.at)

parse_duration_iso8601(dur) ==
    IF dur.bad THEN Err(W(0), <<"Invalid time duration">>) ELSE Ok(dur.td)

schedule_type(entry) == entry.variant

\* A constant schedule that drops the value it is given
ConstantSchedule_new_default(vt, value) ==
    [kind |-> "Constant", var_type |-> vt, value |-> DefaultValue]

ConstantSchedule_new(vt, value) ==
    [kind |-> "Constant", var_type |-> vt, value |-> value]

PeriodicSchedule_new(vt, start_date, period, times, values, default_val) ==
    LET p == hours_to_td(period)
        ts == convert_times(times)
    IN  IF ~p.ok THEN Err(<< >>, <<"Failed to parse period for periodic schedule">>)
        ELSE IF ~ts.ok THEN Err(<< >>, <<"Failed to parse time(s) for periodic schedule">>)
        ELSE Ok([kind |-> "Periodic", var_type |-> vt, start_point |-> start_date,
                 period |-> p.v, times |-> ts.v, values |-> values,
                 default_val |-> default_val])

\* The start point of a periodic entry (schedules.rs 218-227)
start_point_of(entry, start_date, t24_start_point) ==
    IF entry.period[1] = Hrs(T24, 0) THEN Ok(t24_start_point)
    ELSE IF entry.offset_time # None
         THEN LET o == hours_to_td(entry.offset_time[1])
              IN  IF o.ok THEN Ok(WAdd(start_date, o.v))
                  ELSE Err(W(0), <<"Failed to parse offset time">>)
         ELSE Ok(start_date)

\* One turn of the loop of parse_schedules
compile_entry(f, name, start_date, t24_start_point) ==
    LET entry == f.variable_schedules[name]
        vt == entry.header.variable_type
    IN  IF vt \notin DOMAIN f.var_type_specs
        THEN Err(<< >>, <<"Unknown variable type", name>>)
        ELSE LET spec == f.var_type_specs[vt]
             IN  IF schedule_type(entry) \in {"Constant", "Default"}
                 THEN Ok(ConstantSchedule_new(vt,
                          IF entry.value = None THEN spec.default ELSE entry.value[1]))
                 ELSE IF entry.period = None THEN Err(<< >>, <<"No period provided", name>>)
                 ELSE LET sp == start_point_of(entry, start_date, t24_start_point)
                      IN  IF ~sp.ok THEN Err(<< >>, sp.err \o <<name>>)
                          ELSE IF entry.times = None THEN Err(<< >>, <<"No times found", name>>)
                          ELSE IF entry.values = None THEN Err(<< >>, <<"No values found", name>>)
                          ELSE LET n == PeriodicSchedule_new(vt, sp.v, entry.period[1],
                                            entry.times[1], entry.values[1], spec.default)
                               IN  IF n.ok THEN n ELSE Err(<< >>, n.err \o <<name>>)

EmptyMap == [n \in {} |-> << >>]

RECURSIVE compile_loop(_, _, _, _, _)
compile_loop(f, order, start_date, t24_start_point, acc) ==
    IF order = << >> THEN Ok(acc)
    ELSE LET name == Head(order)
             r == compile_entry(f, name, start_date, t24_start_point)
         IN  IF ~r.ok THEN Err(EmptyMap, r.err)
             ELSE compile_loop(f, Tail(order), start_date, t24_start_point,
                      [n \in DOMAIN acc \cup {name} |-> IF n = name THEN r.v ELSE acc[n]])

\* `order` is the order in which the HashMap of entries is iterated
parse_schedules(f, order) ==
    LET sd == parse_datetime_iso8601(f.info.start_date)
        timezone == W(f.info.timezone * TicksPerHour)
        so == parse_duration_iso8601(f.info.start_offset)
    IN  IF ~sd.ok THEN Err(EmptyMap, <<"Invalid start date format">>)
        ELSE IF ~so.ok THEN Err(EmptyMap, so.err)
        ELSE LET t24_start_point ==
                     WSub(WAdd(midnight(WAdd(sd.v, timezone)), so.v), timezone)
             IN  compile_loop(f, order, sd.v, t24_start_point, EmptyMap)

\* lunaluz_deserialization.rs: the validation of one entry, which parse_schedules never calls
is_valid(entry) ==
    /\ (entry.header.schedule_type # None
           => entry.header.schedule_type[1] = schedule_type(entry))
    /\ ~(/\ schedule_type(entry) = "Periodic"
          /\ entry.period # None
          /\ entry.period[1] = Hrs(T24, 0)
          /\ entry.offset_time # None)

----------------------------------------------------------------------------
(* The schedule files, requests and instants the model draws from *)

Names == {"a", "b"}

VarTypeSpecs == [t \in {"led"} |-> [default |-> DefaultValue]]

\* 23:00 UTC of day 1: the local day is the next one an hour east
StartStamp == W(DayTicks + 23 * TicksPerHour)

StartDateInputs == {[bad |-> TRUE, at |-> W(0)], [bad |-> FALSE, at |-> StartStamp]}

StartOffsetInputs ==
    {[bad |-> TRUE, td |-> W(0)]} \cup {[bad |-> FALSE, td |-> W(k * TicksPerHour)] : k \in 0..1}

Infos ==
    [start_date : StartDateInputs, timezone : (0 - 1)..1, start_offset : StartOffsetInputs]

HoursInputs == {NaN, Hrs(0 - 1, 0), Hrs(T24, 0)} \cup {Hrs(0, t) : t \in 0..MaxTick}

SeqsUpTo(S, n) == UNION {[1..k -> S] : k \in 0..n}

TimesInputs ==
    {None, Some(<<Hrs(0 - 1, 0)>>)}
        \cup {Some(ts) : ts \in SeqsUpTo({Hrs(0, t) : t \in 0..MaxTime}, MaxLen)}

ValuesInputs == {None} \cup {Some([i \in 1..k |-> i]) : k \in 0..MaxLen}

Headers == [variable_type : {"led", "nope"}, schedule_type : {None}]

ConstantEntries ==
    [header : Headers, variant : {"Constant", "Default"}, value : {None, Some(1)},
     period : {None}, times : {None}, values : {None}, offset_time : {None}]

PeriodicEntries ==
    [header : Headers, variant : {"Periodic"}, value : {None},
     period : {None} \cup {Some(h) : h \in HoursInputs},
     times : TimesInputs, values : ValuesInputs,
     offset_time : {None, Some(Hrs(0 - 1, 0)), Some(Hrs(0, 1))}]

Entries == ConstantEntries \cup PeriodicEntries

\* Entries of the files that hold two: constant or whole-second periodic
PairEntries ==
    [header : Headers, variant : {"Constant"}, value : {Some(1)},
     period : {None}, times : {None}, values : {None}, offset_time : {None}]
        \cup [header : Headers, variant : {"Periodic"}, value : {None},
               period : {None, Some(Hrs(0, TicksPerSec))}, times : {Some(<<Hrs(0, 0)>>)},
               values : {Some(<<1>>)}, offset_time : {None}]

Files ==
    [info : Infos, var_type_specs : {VarTypeSpecs},
     variable_schedules : [{"a"} -> Entries] \cup [Names -> PairEntries]]

HrsTicks(h) == h.h * TicksPerHour + h.t

\* binary_search has one specified outcome on every slice of the file
Unambiguous(f) ==
    \A n \in DOMAIN f.variable_schedules :
        LET e == f.variable_schedules[n]
        IN  e.times # None =>
                \A i, j \in DOMAIN e.times[1] :
                    i < j => HrsTicks(e.times[1][i]) < HrsTicks(e.times[1][j])

Perms(S) == {p \in [1..Cardinality(S) -> S] : \A i, j \in DOMAIN p : i # j => p[i] # p[j]}

\* 2^31 seconds
FarStep == [hi |-> 2^(I32Bits - 1 - 8) * TicksPerSec, lo |-> 0]

\* Instants asked about: around the start date of the file, far after and far before it
NearInstants == {WAdd(file.info.start_date.at, W(d)) : d \in (0 - 1)..MaxNear}

FarInstants == {WAdd(file.info.start_date.at, WMul(W(j), FarStep)) : j \in 1..MaxFar}

PastInstants == {WSub(file.info.start_date.at, WMul(W(j), FarStep)) : j \in 1..MaxFar}

QueryInstants == NearInstants \cup FarInstants \cup PastInstants

BadTime == [bad |-> TRUE, at |-> W(0)]

Stamp(q) == [bad |-> FALSE, at |-> q]

TimeInputs == {BadTime} \cup {Stamp(q) : q \in QueryInstants}

BatchInputs == {<<BadTime>>} \cup SeqsUpTo({Stamp(q) : q \in NearInstants}, MaxBatch)

NameInputs == {None} \cup {Some(<<n>>) : n \in Names}

GetRequests ==
    [time : TimeInputs, include_types : BOOLEAN, namespace : {None}]
        \cup [time : TimeInputs, include_types : {FALSE}, namespace : {Some("ext")}]

\* `now` is what Utc::now() reads while the request is served
PostRequests ==
    [time : {Some(t) : t \in TimeInputs}, times : {None}, names : NameInputs,
     namespace : {None}, now : {StartStamp}]
        \cup [time : {None}, times : {None}, names : {None},
               namespace : {None, Some("ext")}, now : QueryInstants]
        \cup [time : {None}, times : {Some(ts) : ts \in BatchInputs}, names : NameInputs,
               namespace : {None}, now : {StartStamp}]
        \cup [time : {Some(t) : t \in TimeInputs}, times : {Some(<< >>)}, names : {None},
               namespace : {None}, now : {StartStamp}]

----------------------------------------------------------------------------
(* The handlers: server_actions.rs *)

\* No extension has registered a namespace
ext_schedules == EmptyMap

NoReply ==
    [op |-> "none", status |-> "none", times |-> << >>, values |-> EmptyMap,
     var_types |-> EmptyMap, err |-> ""]

Failed(op, e) == [NoReply EXCEPT !.op = op, !.status = "err", !.err = e]

\* A panic unwinds the handler: no response; `times` keeps what was asked
Unwound(op, times) == [NoReply EXCEPT !.op = op, !.status = "panic", !.times = times]

get_vars(time, include_types, namespace) ==
    LET t == parse_datetime_iso8601(time)
    IN  IF ~t.ok THEN Failed("get_vars", "Error parsing time")
        ELSE IF namespace # None /\ namespace[1] \notin DOMAIN ext_schedules
        THEN Failed("get_vars", "Unknown Namespace")
        ELSE LET scheds == IF namespace = None THEN schedules.v
                           ELSE ext_schedules[namespace[1]]
             IN  IF \E n \in DOMAIN scheds : floor_search(scheds[n], t.v).panic
                 THEN Unwound("get_vars", <<t.v>>)
                 ELSE [op |-> "get_vars", status |-> "ok", times |-> <<t.v>>,
                       values |-> [n \in DOMAIN scheds |->
                                      <<floor_search(scheds[n], t.v).value>>],
                       var_types |-> IF include_types
                                     THEN [n \in DOMAIN scheds |-> var_type(scheds[n])]
                                     ELSE EmptyMap,
                       err |-> ""]

\* payload.time absent is Utc::now(): `now`
post_vars(time, times, names, namespace, now) ==
    IF time # None /\ times # None
    THEN Failed("post_vars", "Bad request; included both time and times")
    ELSE IF namespace # None /\ namespace[1] \notin DOMAIN ext_schedules
    THEN Failed("post_vars", "Unknown Namespace")
    ELSE LET scheds == IF namespace = None THEN schedules.v
                       ELSE ext_schedules[namespace[1]]
         IN  IF names # None /\ \E i \in DOMAIN names[1] : names[1][i] \notin DOMAIN scheds
             THEN Failed("post_vars", "Requested one or more unknown variables")
             ELSE LET vs == IF names = None THEN DOMAIN scheds
                            ELSE {names[1][i] : i \in DOMAIN names[1]}
                  IN  IF times # None
                      THEN IF \E i \in DOMAIN times[1] : times[1][i].bad
                           THEN Failed("post_vars", "Error parsing time")
                           ELSE LET ts == [i \in DOMAIN times[1] |-> times[1][i].at]
                                IN  IF \E n \in vs : floor_multi_search(scheds[n], ts).panic
                                    THEN Unwound("post_vars", ts)
                                    ELSE [op |-> "post_vars", status |-> "ok", times |-> ts,
                                          values |-> [n \in vs |->
                                              floor_multi_search(scheds[n], ts).value],
                                          var_types |-> EmptyMap, err |-> ""]
                      ELSE IF time # None /\ time[1].bad
                           THEN Failed("post_vars", "Error parsing time")
                           ELSE LET t == IF time = None THEN now ELSE time[1].at
                                IN  IF \E n \in vs : floor_search(scheds[n], t).panic
                                    THEN Unwound("post_vars", <<t>>)
                                    ELSE [op |-> "post_vars", status |-> "ok", times |-> <<t>>,
                                          values |-> [n \in vs |->
                                              <<floor_search(scheds[n], t).value>>],
                                          var_types |-> EmptyMap, err |-> ""]

----------------------------------------------------------------------------
(* The state machine *)

NotCompiled == [ok |-> FALSE, v |-> EmptyMap, err |-> <<"not compiled">>]

Init ==
    /\ file \in Files
    /\ build \in Builds
    /\ pick \in IF Unambiguous(file) THEN {0} ELSE 0..MaxPick
    /\ schedules = NotCompiled
    /\ reply = NoReply

\* Start-up: the file is compiled once
ParseSchedules ==
    /\ schedules = NotCompiled
    /\ \E order \in Perms(DOMAIN file.variable_schedules) :
           schedules' = parse_schedules(file, order)
    /\ UNCHANGED <<file, build, pick, reply>>

\* A handler reads the schedules and nothing a request has written, so the
\* request served first reaches every state a later one can reach
GetVars ==
    /\ schedules.ok
    /\ reply = NoReply
    /\ \E r \in GetRequests : reply' = get_vars(r.time, r.include_types, r.namespace)
    /\ UNCHANGED <<file, build, pick, schedules>>

PostVars ==
    /\ schedules.ok
    /\ reply = NoReply
    /\ \E r \in PostRequests :
           reply' = post_vars(r.time, r.times, r.names, r.namespace, r.now)
    /\ UNCHANGED <<file, build, pick, schedules>>

Next == ParseSchedules \/ GetVars \/ PostVars

Spec == Init /\ [][Next]_vars

----------------------------------------------------------------------------
(* What the claims speak of *)

Compiled == schedules.ok

PeriodicNames == {n \in DOMAIN schedules.v : schedules.v[n].kind = "Periodic"}

Asked == DOMAIN reply.times

\* The breakpoints and values of s are as the data model requires
WellFormed(s) ==
    /\ WLess(W(0), s.period)
    /\ Len(s.times) >= 1
    /\ Len(s.values) = Len(s.times)
    /\ StrictlyAscending(s.times)
    /\ \A i \in DOMAIN s.times : WLess(s.times[i], s.period)

\* (at - anchor) mod period, in ticks
CycleOffset(s, at) == WMod(WSub(at, s.start_point), ToInt(s.period))

\* The value of the latest breakpoint at or before offset x, or the default
FloorValue(s, x) ==
    LET passed == {i \in DOMAIN s.times : WLeq(s.times[i], W(x))}
    IN  IF passed = {} THEN s.default_val
        ELSE s.values[CHOOSE i \in passed : \A j \in passed : j <= i]

\* C3: a periodic schedule asked about an instant before its anchor answers
\* its default value, and no request that asks only about such instants fails
C3_PreAnchorDefault ==
    /\ \A n \in DOMAIN reply.values : \A i \in Asked :
           (n \in PeriodicNames /\ WLess(reply.times[i], schedules.v[n].start_point))
               => reply.values[n][i] = schedules.v[n].default_val
    /\ reply.status = "panic" =>
           \E n \in PeriodicNames : \E i \in Asked :
               ~WLess(reply.times[i], schedules.v[n].start_point)

C3_Witness ==
    /\ reply.status = "ok"
    /\ \E n \in DOMAIN reply.values : \E i \in Asked :
           /\ n \in PeriodicNames
           /\ WLess(reply.times[i], schedules.v[n].start_point)
           /\ WellFormed(schedules.v[n])
           /\ schedules.v[n].times[1] = W(0)

\* C4: the answer to a batch of instants has, for every variable, one value
\* for each instant, the one floor_search gives for it; the batch fails
\* only if floor_search fails for one of its instants
C4_BatchEqualsPoint ==
    reply.op = "post_vars" =>
        /\ reply.status = "ok" =>
               \A n \in DOMAIN reply.values :
                   /\ Len(reply.values[n]) = Len(reply.times)
                   /\ \A i \in Asked :
                          reply.values[n][i] = floor_search(schedules.v[n], reply.times[i]).value
        /\ reply.status = "panic" =>
               \E n \in DOMAIN schedules.v : \E i \in Asked :
                   floor_search(schedules.v[n], reply.times[i]).panic

C4_Witness ==
    /\ reply.op = "post_vars"
    /\ reply.status = "ok"
    /\ Len(reply.times) = 2
    /\ WLess(reply.times[2], reply.times[1])
    /\ \E n \in DOMAIN reply.values :
           n \in PeriodicNames /\ reply.values[n][1] # reply.values[n][2]

\* C1: a well-formed periodic schedule asked about an instant at or after its
\* anchor answers the value of the latest breakpoint at or before
\* (at - anchor) mod period, or the default before the first breakpoint
C1_FloorCorrectness ==
    /\ reply.status = "ok" =>
           \A n \in DOMAIN reply.values : \A i \in Asked :
               (/\ n \in PeriodicNames
                /\ WellFormed(schedules.v[n])
                /\ WLeq(schedules.v[n].start_point, reply.times[i]))
                   => reply.values[n][i] =
                          FloorValue(schedules.v[n], CycleOffset(schedules.v[n], reply.times[i]))
    /\ reply.status = "panic" =>
           \E n \in PeriodicNames : ~WellFormed(schedules.v[n])

\* C2: a well-formed periodic schedule answers the same for two instants at or
\* after its anchor that lie a whole number of periods apart
C2_Periodicity ==
    reply.status = "ok" =>
        \A n \in DOMAIN reply.values : \A i, j \in Asked :
            (/\ n \in PeriodicNames
             /\ WellFormed(schedules.v[n])
             /\ WLeq(schedules.v[n].start_point, reply.times[i])
             /\ WLeq(schedules.v[n].start_point, reply.times[j])
             /\ WMod(WSub(reply.times[j], reply.times[i]), ToInt(schedules.v[n].period)) = 0)
                => reply.values[n][i] = reply.values[n][j]

\* C5: no request about the schedules of a compiled map fails, here even
\* with every periodic schedule of the map well-formed
C5_EvaluationTotal ==
    reply.status = "panic" => \E n \in PeriodicNames : ~WellFormed(schedules.v[n])

IsT24WithOffset(e) ==
    /\ e.variant = "Periodic"
    /\ e.period = Some(Hrs(T24, 0))
    /\ e.offset_time # None

\* C6: a file with a 24-hour periodic entry that has an offset_time does not compile
C6_T24OffsetRejected ==
    Compiled =>
        \A n \in DOMAIN file.variable_schedules : ~IsT24WithOffset(file.variable_schedules[n])

\* C7: every periodic schedule of a compiled map has strictly ascending breakpoints
C7_BreakpointsAscending ==
    Compiled => \A n \in PeriodicNames : StrictlyAscending(schedules.v[n].times)

Unconvertible(h) == h.nan \/ h.h < 0

\* An entry the compiler has to refuse: unknown variable type, missing
\* periodic field, or a period, offset or breakpoint that is no duration
InvalidEntry(e) ==
    \/ e.header.variable_type \notin DOMAIN file.var_type_specs
    \/ /\ e.variant = "Periodic"
       /\ \/ e.period = None
          \/ e.times = None
          \/ e.values = None
          \/ Unconvertible(e.period[1])
          \/ e.offset_time # None /\ Unconvertible(e.offset_time[1])
          \/ \E i \in DOMAIN e.times[1] : Unconvertible(e.times[1][i])

\* C8: a compilation ends with an error and no map, or with a map that holds a
\* schedule for every entry of the file and no other; it ends with an error
\* whenever an entry is invalid
C8_AllOrNothing ==
    schedules # NotCompiled =>
        /\ ~schedules.ok => schedules.v = EmptyMap
        /\ schedules.ok => DOMAIN schedules.v = DOMAIN file.variable_schedules
        /\ (\E n \in DOMAIN file.variable_schedules : InvalidEntry(file.variable_schedules[n]))
               => ~schedules.ok

\* C10: every periodic schedule of a compiled map has a period above zero
C10_PeriodPositive ==
    Compiled => \A n \in PeriodicNames : WLess(W(0), schedules.v[n].period)

\* C9: the anchor of a compiled periodic schedule is, for a 24-hour period,
\* the UTC instant of the local midnight of the start date plus start_offset;
\* else start_date + offset_time if there is one; else start_date
C9_AnchorRule ==
    Compiled =>
        \A n \in PeriodicNames :
            LET e == file.variable_schedules[n]
                anchor == schedules.v[n].start_point
                sd == file.info.start_date.at
                tz == W(file.info.timezone * TicksPerHour)
                off == file.info.start_offset.td
                localMidnight == WSub(WAdd(anchor, tz), off)
                localStart == WAdd(sd, tz)
            IN  IF e.period[1] = Hrs(T24, 0)
                THEN /\ WMod(localMidnight, DayTicks) = 0
                     /\ WLeq(localMidnight, localStart)
                     /\ WLess(localStart, WAdd(localMidnight, W(DayTicks)))
                     /\ off = W(0) =>
                            WLeq(anchor, sd) /\ WLess(sd, WAdd(anchor, W(DayTicks)))
                ELSE IF e.offset_time # None
                THEN anchor = WAdd(sd, W(HrsTicks(e.offset_time[1])))
                ELSE anchor = sd

C9_Witness ==
    /\ Compiled
    /\ file.info.timezone = 1
    /\ file.info.start_offset.td # W(0)
    /\ \E n \in PeriodicNames :
           /\ file.variable_schedules[n].period[1] = Hrs(T24, 0)
           /\ WLess(schedules.v[n].start_point, file.info.start_date.at) = FALSE


\* The entries of the file that are Constant or Default
ConstantNames ==
    {n \in DOMAIN file.variable_schedules :
        schedule_type(file.variable_schedules[n]) \in {"Constant", "Default"}}

\* The explicit value of the entry, or else the default of its variable type
EntryValue(n) ==
    LET e == file.variable_schedules[n]
    IN  IF e.value # None THEN e.value[1]
        ELSE file.var_type_specs[e.header.variable_type].default

\* C11: a Constant or Default entry evaluates to one value at every instant,
\* near or far, before or after the start date: its explicit value if it has
\* one, otherwise the default of its variable type
C11_ConstantInvariance ==
    Compiled =>
        \A n \in ConstantNames :
            /\ n \in DOMAIN schedules.v
            /\ \A q \in QueryInstants :
                   floor_search(schedules.v[n], q) = Ret(EntryValue(n))
            /\ \A q1, q2 \in QueryInstants :
                   floor_multi_search(schedules.v[n], <<q1, q2>>)
                       = Ret(<<EntryValue(n), EntryValue(n)>>)
            /\ (reply.status = "ok" /\ n \in DOMAIN reply.values) =>
                   \A i \in DOMAIN reply.values[n] : reply.values[n][i] = EntryValue(n)

\* An entry with an explicit value other than the default has answered a
\* request about an instant far before or far after the start date
C11_Witness ==
    /\ Compiled
    /\ reply.status = "ok"
    /\ \E n \in ConstantNames \cap DOMAIN reply.values :
           /\ EntryValue(n) # DefaultValue
           /\ file.variable_schedules[n].value # None
           /\ \E i \in Asked :
                  /\ reply.times[i] \in FarInstants \cup PastInstants
                  /\ reply.values[n][i] = EntryValue(n)

\* The cycle start and the offset in the cycle are those of the cycle that holds `at`
InCycle(s, at) ==
    LET m == most_recent_start(s, at)
        p == fetch_schedule_point(s, at)
    IN  /\ ~m.panic
        /\ WLeq(m.value, at)
        /\ WLess(at, WAdd(m.value, s.period))
        /\ ~p.panic
        /\ WLeq(W(0), p.value)
        /\ WLess(p.value, s.period)

\* C12: for a periodic schedule with a period above zero, whole seconds or
\* not, and an instant at or after its anchor, most_recent_start answers a
\* cycle start with cycleStart <= at < cycleStart + period, and
\* fetch_schedule_point an offset in [0, period)
C12_CycleStartInvariant ==
    Compiled =>
        \A n \in PeriodicNames : \A i \in Asked :
            LET s == schedules.v[n]
                at == reply.times[i]
            IN  (WLess(W(0), s.period) /\ WLeq(s.start_point, at)) => InCycle(s, at)

\* The cycle count of most_recent_start before its cast (schedules.rs 143)
approx_n(s, time) ==
    WDivTrunc(num_seconds(WSub(time, s.start_point)), ToInt(num_seconds(s.period)))

\* The cast `approx_n as i32` leaves the cycle count as it was
CountKeepsWidth(s, at) ==
    num_seconds(s.period) # W(0) => AsI32(approx_n(s, at)) = approx_n(s, at)

\* C13: for an instant at or after the anchor, however far, the cycle count
\* used for the cycle start is floor((at - anchor) / period) itself, never
\* cut to a narrower integer, so the value answered is the floor-lookup
\* value at (at - anchor) mod period
C13_NoSilentWrap ==
    Compiled =>
        \A n \in PeriodicNames : \A i \in Asked :
            LET s == schedules.v[n]
                at == reply.times[i]
            IN  (WellFormed(s) /\ WLeq(s.start_point, at)) =>
                    /\ CountKeepsWidth(s, at)
                    /\ (reply.status = "ok" /\ n \in DOMAIN reply.values) =>
                           reply.values[n][i] = FloorValue(s, CycleOffset(s, at))

============================================================================
